---- MODULE Spec2Model ----
(***************************************************************************)
(* Quota-gated usage accounting and billing-state synchronisation of       *)
(* ListingCraft (apps/subscriptions): the Usage ledger, the quota gate     *)
(* (SubscriptionService.check_usage_quota / increment_usage) and the       *)
(* Stripe event handlers.                                                  *)
(*                                                                         *)
(* Time is counted in ticks of half a second, so that an instant strictly  *)
(* inside the last second of a month (23:59:59.5) can be told from the     *)
(* stored period_end (23:59:59.0).  A month is shortened to MonthLen ticks.*)
(* The usage table is a sequence of rows; a row's primary key is its index.*)
(***************************************************************************)
EXTENDS Integers, Sequences, FiniteSets, TLC

\* ------------------------------------------------------------- bounds
MaxQuota == 2                \* finite quotas are 0..MaxQuota
MonthLen == 3                \* ticks per (shortened) calendar month
MaxNow == 4                  \* the clock stops here
MaxRecords == 3              \* rows of the usage table
MaxListings == 2             \* rows of the listing table

\* ---------------------------------------------------- program constants
UNLIMITED == -1              \* description_quota sentinel
OneSecond == 2               \* timedelta(seconds=1), in ticks

Users == {"u1", "u2"}
Plans == {"p1", "p2"}
SubIds == {"sub_1", "sub_2"}
FinitePlan == "p1"           \* seeded with a finite quota
UnlimitedPlan == "p2"        \* seeded with description_quota = -1
Callers == {"u1"}            \* the user whose requests and events are explored
Procs == {1, 2}              \* concurrent request workers
NoSub == [status |-> "NONE"]
NoTime == 0 - 1              \* a null DateTimeField
NoRec == 0                   \* no row

Statuses == {"ACTIVE", "TRIALING", "PAST_DUE", "CANCELED", "UNPAID"}
NoStatus == "None"           \* subscription_data.get('status') of a payload without status
StripeStatuses ==
    {"active", "trialing", "past_due", "canceled", "unpaid", "incomplete", NoStatus}
Quotas == {UNLIMITED} \cup (0..MaxQuota)
MaxCount == MaxQuota + 1     \* cap of descriptions_generated

VARIABLES
    now,          \* timezone.now(), in ticks
    planQuota,    \* SubscriptionPlan.description_quota, per plan
    subs,         \* UserSubscription per user (one-to-one), or NoSub
    usage,        \* the Usage table
    okCalls,      \* history: consume calls of the user that returned True in the
                  \* current calendar month; -1 once the user's plan, status or
                  \* quota changed during the month
    incs,         \* history: per usage row, the increments committed to it
    gapCall,      \* history: a consume call of the user read the clock in the last
                  \* second of the current month, after the stored period_end
    last,         \* history: the operation that ran last and what it returned
    pc,           \* per worker: its position inside a request
    loc,          \* per worker: the request's local variables
    subRows,      \* per user: the UserSubscription rows whose user_id is the user
    listings      \* the number of Listing rows

vars == <<now, planQuota, subs, usage, okCalls, incs, gapCall, last, pc, loc,
         subRows, listings>>

\* ------------------------------------------------------ pure functions

\* faulty variant: a status the table does not name is taken for active
MapStripeStatus_Open(s) ==
    CASE s = "active" -> "ACTIVE"
      [] s = "trialing" -> "TRIALING"
      [] s = "past_due" -> "PAST_DUE"
      [] s = "canceled" -> "CANCELED"
      [] s = "unpaid" -> "UNPAID"
      [] OTHER -> "ACTIVE"

\* SubscriptionService._map_stripe_status
MapStripeStatus(s) ==
    CASE s = "active" -> "ACTIVE"
      [] s = "trialing" -> "TRIALING"
      [] s = "past_due" -> "PAST_DUE"
      [] s = "canceled" -> "CANCELED"
      [] s = "unpaid" -> "UNPAID"
      [] OTHER -> "CANCELED"

\* datetime.fromtimestamp(ts, tz=utc): epoch seconds to an instant (ticks)
FromTimestamp(ts) == ts * OneSecond

\* now.replace(day=1, hour=0, minute=0, second=0, microsecond=0)
PeriodStart(t) == t - (t % MonthLen)

\* first instant of the next month minus timedelta(seconds=1)
PeriodEnd(t) == PeriodStart(t) + MonthLen - OneSecond

MonthOf(t) == t \div MonthLen

\* t lies in its calendar month and after the period_end stored for that month
InGap(t) == t > PeriodEnd(t)

\* faulty variant: 0 taken for the unlimited sentinel
IsUnlimited_Zero(q) == q = 0

\* SubscriptionPlan.is_unlimited
IsUnlimited(q) == q = UNLIMITED

Max(a, b) == IF a >= b THEN a ELSE b

HasSub(u) == subs[u] # NoSub

\* faulty variant: a PAST_DUE subscription still passes the gate
StatusActive_PastDue(st) == st \in {"ACTIVE", "TRIALING", "PAST_DUE"}

\* UserSubscription.is_active / status in ['ACTIVE', 'TRIALING']
StatusActive(st) == st \in {"ACTIVE", "TRIALING"}

\* the filter of get_or_create: user=user, period_start__lte=now, period_end__gte=now
Matches(tbl, u, t) ==
    {i \in 1..Len(tbl) : /\ tbl[i].user = u
                         /\ tbl[i].period_start <= t
                         /\ tbl[i].period_end >= t}

NewUsage(u, t) ==
    [user |-> u, period_start |-> PeriodStart(t), period_end |-> PeriodEnd(t),
     descriptions_generated |-> 0]

\* Usage.get_or_create_current run without interruption at instant t:
\* the row found, or the row created, or MultipleObjectsReturned raised.
GetOrCreate(tbl, u, t) ==
    LET m == Matches(tbl, u, t) IN
    IF Cardinality(m) = 1
    THEN [tbl |-> tbl, id |-> CHOOSE i \in m : TRUE, created |-> FALSE, raised |-> FALSE]
    ELSE IF m = {}
    THEN [tbl |-> Append(tbl, NewUsage(u, t)), id |-> Len(tbl) + 1,
          created |-> TRUE, raised |-> FALSE]
    ELSE [tbl |-> tbl, id |-> NoRec, created |-> FALSE, raised |-> TRUE]

\* Usage.get_remaining_quota, for a finite quota
RemainingQuota(q, count) == Max(0, q - count)

\* remaining as check_usage_quota computes it
QuotaRemaining(q, count) == q - count

\* has_quota as check_usage_quota computes it
QuotaAllowed(remaining) == remaining > 0

\* SubscriptionService.check_usage_quota(u) run without interruption at t.
\* kind: "none" (no subscription), "inactive", "unlimited", "finite", "raised"
CheckUsageQuota(sb, pq, tbl, u, t) ==
    IF sb[u] = NoSub
    THEN [allowed |-> FALSE, remaining |-> 0, kind |-> "none", tbl |-> tbl, id |-> NoRec]
    ELSE IF ~StatusActive(sb[u].status)
    THEN [allowed |-> FALSE, remaining |-> 0, kind |-> "inactive", tbl |-> tbl, id |-> NoRec]
    ELSE LET g == GetOrCreate(tbl, u, t)
             q == pq[sb[u].plan] IN
         IF g.raised
         THEN [allowed |-> FALSE, remaining |-> 0, kind |-> "raised", tbl |-> tbl, id |-> NoRec]
         ELSE IF IsUnlimited(q)
         THEN [allowed |-> TRUE, remaining |-> 0, kind |-> "unlimited", tbl |-> g.tbl, id |-> g.id]
         ELSE LET r == QuotaRemaining(q, g.tbl[g.id].descriptions_generated) IN
              [allowed |-> QuotaAllowed(r), remaining |-> r, kind |-> "finite",
               tbl |-> g.tbl, id |-> g.id]

\* faulty variant: the 80% tier fires at every count, not at multiples of ten
QuotaWarningDue_EveryCount(q, count) ==
    /\ q > 0
    /\ 100 * count >= 80 * q

\* the condition of the quota warning e-mail in increment_usage
\* (percentage = count / quota * 100)
QuotaWarningDue(q, count) ==
    /\ q > 0
    /\ \/ 100 * count >= 100 * q
       \/ 100 * count >= 90 * q
       \/ (100 * count >= 80 * q /\ count % 10 = 0)

\* descriptions_generated += 1
Incremented(count) == count + 1

Idle == [op |-> "idle"]

\* the UserSubscription table holds one row for each subscribed user
RowsOf(sb) == [u \in Users |-> IF sb[u] = NoSub THEN 0 ELSE 1]

\* ---------------------------------------------------------------- Init
\* another subscriber, as handle_checkout_session_completed stores one
OtherSub ==
    [plan |-> FinitePlan, stripe_subscription_id |-> "sub_2",
     status |-> MapStripeStatus("active"),
     current_period_start |-> FromTimestamp(1), current_period_end |-> FromTimestamp(2),
     cancel_at_period_end |-> FALSE, canceled_at |-> NoTime]

\* The seeded plans and the tables either empty or holding the subscription and
\* the usage row (one description generated at tick 0) of another user, u2,
\* who stays away afterwards: u1's requests must neither read nor write u2's rows.
Init ==
    /\ now \in 0..(MonthLen - 1)
    /\ planQuota \in {pq \in [Plans -> Quotas] :
                        pq[FinitePlan] # UNLIMITED /\ pq[UnlimitedPlan] = UNLIMITED}
    /\ \E other \in BOOLEAN :
          /\ subs = [u \in Users |-> IF other /\ u = "u2" THEN OtherSub ELSE NoSub]
          /\ usage = IF other
                     THEN <<[NewUsage("u2", 0) EXCEPT !.descriptions_generated = 1]>>
                     ELSE <<>>
          /\ incs = IF other THEN <<1>> ELSE <<>>
    /\ okCalls = [u \in Users |-> 0]
    /\ gapCall = [u \in Users |-> FALSE]
    /\ last = [op |-> "init"]
    /\ pc = [p \in Procs |-> "idle"]
    /\ loc = [p \in Procs |-> Idle]
    /\ subRows = RowsOf(subs)
    /\ listings = 0

\* ------------------------------------------------------------ history
\* okCalls after an action that may have changed plans or subscriptions:
\* a user whose plan, status or quota changed is marked -1 for the month.
Effective(sb, pq, u) ==
    IF sb[u] = NoSub THEN <<"NONE">> ELSE <<sb[u].plan, sb[u].status, pq[sb[u].plan]>>

Disturbed(sb, pq) ==
    [u \in Users |->
        IF subs[u] # NoSub /\ Effective(sb, pq, u) # Effective(subs, planQuota, u)
        THEN 0 - 1 ELSE okCalls[u]]

\* incs after the table grew to tbl: a new row has no increment yet
Grown(h, tbl) == [i \in 1..Len(tbl) |-> IF i <= Len(h) THEN h[i] ELSE 0]

\* ------------------------------------------------- the clock, the admin

\* time passes by one tick
Tick ==
    /\ now < MaxNow
    /\ now' = now + 1
    /\ okCalls' = IF MonthOf(now + 1) # MonthOf(now)
                  THEN [u \in Users |-> 0] ELSE okCalls
    /\ gapCall' = IF MonthOf(now + 1) # MonthOf(now)
                  THEN [u \in Users |-> FALSE] ELSE gapCall
    /\ UNCHANGED <<planQuota, subs, usage, incs, last, pc, loc, subRows, listings>>

\* SubscriptionPlanAdmin: an administrator saves a plan with another quota
AdminSetQuota(p, q) ==
    /\ q # planQuota[p]
    /\ planQuota' = [planQuota EXCEPT ![p] = q]
    /\ okCalls' = Disturbed(subs, planQuota')
    /\ last' = [op |-> "admin"]
    /\ UNCHANGED <<now, subs, usage, incs, gapCall, pc, loc, subRows, listings>>

\* ------------------------------------------------------ e-mail transport
\* send_mail(.., fail_silently=False) returns, or raises what the backend raised
Delivered == "ok"
SendOutcomes == {Delivered, "SMTPException"}

\* faulty variant: the send is not wrapped in try/except
Caught_None(outcome) == FALSE

\* try: EmailService.send_..(..)  except Exception as e: print(..)
Caught(outcome) == outcome \in SendOutcomes \ {Delivered}

\* a send was attempted and the transport raised
MailFailed(mails, send) == mails # {} /\ send # Delivered

\* ... and the exception leaves the handler
Escapes(mails, send) == MailFailed(mails, send) /\ ~Caught(send)

\* stripe_webhook: success unless the handler raised (status 500)
Response(raised) == IF raised THEN "error" ELSE "success"

\* --------------------------------------------------------- usage ledger

\* Usage.get_or_create_current(u), called on its own (dashboard, usage page)
GetOrCreateCurrent(u) ==
    LET g == GetOrCreate(usage, u, now) IN
    /\ Len(g.tbl) <= MaxRecords
    /\ usage' = g.tbl
    /\ incs' = Grown(incs, g.tbl)
    /\ last' = [op |-> "goc", user |-> u, id |-> g.id, month |-> MonthOf(now)]
    /\ UNCHANGED <<now, planQuota, subs, okCalls, gapCall, pc, loc, subRows, listings>>

\* ----------------------------------------------------------- quota gate

\* SubscriptionService.check_usage_quota(u)
CheckQuota(u) ==
    LET c == CheckUsageQuota(subs, planQuota, usage, u, now) IN
    /\ Len(c.tbl) <= MaxRecords
    /\ usage' = c.tbl
    /\ incs' = Grown(incs, c.tbl)
    /\ last' = [op |-> "check", user |-> u, allowed |-> c.allowed]
    /\ UNCHANGED <<now, planQuota, subs, okCalls, gapCall, pc, loc, subRows, listings>>

\* faulty variant: the early return is missing
Refused_Never(has_quota) == FALSE

\* if not has_quota: return False
Refused(has_quota) == ~has_quota

\* SubscriptionService.increment_usage(u): the whole call, at one instant
ConsumeResult(sb, pq, tbl, u, t) ==
    LET c == CheckUsageQuota(sb, pq, tbl, u, t) IN
    IF c.kind = "raised"
    THEN [ret |-> "raised", tbl |-> tbl, id |-> NoRec, mails |-> {}, kind |-> c.kind]
    ELSE IF Refused(c.allowed)
    THEN [ret |-> "false", tbl |-> c.tbl, id |-> NoRec, mails |-> {}, kind |-> c.kind]
    ELSE LET g == GetOrCreate(c.tbl, u, t) IN
         IF g.raised
         THEN [ret |-> "raised", tbl |-> c.tbl, id |-> NoRec, mails |-> {}, kind |-> c.kind]
         ELSE LET n == Incremented(g.tbl[g.id].descriptions_generated)
                  q == pq[sb[u].plan] IN
              [ret |-> "true",
               tbl |-> [g.tbl EXCEPT ![g.id].descriptions_generated = n],
               id |-> g.id,
               mails |-> IF sb[u] # NoSub /\ QuotaWarningDue(q, n)
                         THEN {"quota_warning"} ELSE {},
               kind |-> c.kind]

\* send: what the transport does if the quota warning is sent; the row is
\* saved before the send, so an exception leaving the call undoes nothing
Consume(u, send) ==
    LET r == ConsumeResult(subs, planQuota, usage, u, now) IN
    /\ Len(r.tbl) <= MaxRecords
    /\ \A i \in 1..Len(r.tbl) : r.tbl[i].descriptions_generated <= MaxCount
    /\ usage' = r.tbl
    /\ okCalls' = IF r.ret = "true" /\ okCalls[u] >= 0
                  THEN [okCalls EXCEPT ![u] = @ + 1] ELSE okCalls
    /\ incs' = IF r.ret = "true"
               THEN [Grown(incs, r.tbl) EXCEPT ![r.id] = @ + 1]
               ELSE Grown(incs, r.tbl)
    /\ gapCall' = IF InGap(now) /\ r.kind \in {"finite", "unlimited"}
                  THEN [gapCall EXCEPT ![u] = TRUE] ELSE gapCall
    /\ last' = [op |-> "consume", user |-> u,
                ret |-> IF Escapes(r.mails, send) THEN "raised" ELSE r.ret,
                mails |-> r.mails, mailFailed |-> MailFailed(r.mails, send)]
    /\ UNCHANGED <<now, planQuota, subs, pc, loc, subRows, listings>>

\* ------------------------------------------------ billing event reconciler

\* faulty variant: the lookup ignores the id
SubsWithId_Any(sb, sid) == {u \in Users : sb[u] # NoSub}

\* the subscriptions a handler's UserSubscription.objects.get(stripe_subscription_id=..) matches
SubsWithId(sb, sid) == {u \in Users : sb[u] # NoSub /\ sb[u].stripe_subscription_id = sid}

\* a value the event does not carry (None, or the empty string)
NoId == ""

\* faulty variant: the customer id is not among the values tested
MissingData_Customer(ev) == ev.user = NoId \/ ev.plan = NoId \/ ev.id = NoId

\* if not all([user_id, plan_id, customer_id, subscription_id]): raise ValueError
MissingData(ev) ==
    ev.user = NoId \/ ev.plan = NoId \/ ev.customer = NoId \/ ev.id = NoId

\* faulty variant: the confirmation is sent on every delivery
ConfirmationDue_Always(created) == TRUE

\* if EMAIL_ENABLED and created: the confirmation e-mail is sent
ConfirmationDue(created) == created

\* handle_checkout_session_completed: ev carries the metadata (user, plan), the
\* Stripe subscription id and what stripe.Subscription.retrieve returns for it
\* (status, period bounds).  stripe_customer_id and trial_end are stored and never read.
\* update_or_create commits before the usage row and the e-mail are dealt with.
HandleCheckoutCompleted(ev, send) ==
    IF MissingData(ev)
    THEN /\ last' = [op |-> "checkout", user |-> ev.user, created |-> FALSE, event |-> ev,
                     response |-> Response(TRUE), mails |-> {}, mailFailed |-> FALSE]
         /\ UNCHANGED <<now, planQuota, subs, usage, okCalls, incs, gapCall, pc, loc,
                        subRows, listings>>
    ELSE LET u == ev.user
             created == ~HasSub(u)
             g == GetOrCreate(usage, u, now)
             mails == IF ConfirmationDue(created) /\ ~(created /\ g.raised)
                      THEN {"subscription_confirmation"} ELSE {}
             raised == (created /\ g.raised) \/ Escapes(mails, send)
             sb == [subs EXCEPT ![u] =
                      [plan |-> ev.plan,
                       stripe_subscription_id |-> ev.id,
                       status |-> MapStripeStatus(ev.status),
                       current_period_start |-> FromTimestamp(ev.current_period_start),
                       current_period_end |-> FromTimestamp(ev.current_period_end),
                       cancel_at_period_end |-> FALSE,
                       canceled_at |-> NoTime]] IN
         /\ created => Len(g.tbl) <= MaxRecords
         /\ subs' = sb
         /\ usage' = IF created THEN g.tbl ELSE usage
         /\ incs' = IF created THEN Grown(incs, g.tbl) ELSE incs
         /\ okCalls' = Disturbed(sb, planQuota)
         /\ subRows' = IF created THEN [subRows EXCEPT ![u] = @ + 1] ELSE subRows
         /\ last' = [op |-> "checkout", user |-> u, created |-> created, event |-> ev,
                     response |-> Response(raised),
                     mails |-> mails, mailFailed |-> MailFailed(mails, send)]
         /\ UNCHANGED <<now, planQuota, gapCall, pc, loc, listings>>

\* faulty variant: the new period end is added to the stored one
ApplyUpdated_Extend(s, ev) ==
    [s EXCEPT !.status = MapStripeStatus(ev.status),
              !.current_period_start = FromTimestamp(ev.current_period_start),
              !.current_period_end = @ + FromTimestamp(ev.current_period_end),
              !.cancel_at_period_end = ev.cancel_at_period_end,
              !.canceled_at = IF ev.canceled_at # 0 /\ ev.canceled_at # NoTime
                              THEN FromTimestamp(ev.canceled_at) ELSE @]

\* the fields handle_subscription_updated writes, given the row and the event
ApplyUpdated(s, ev) ==
    [s EXCEPT !.status = MapStripeStatus(ev.status),
              !.current_period_start = FromTimestamp(ev.current_period_start),
              !.current_period_end = FromTimestamp(ev.current_period_end),
              !.cancel_at_period_end = ev.cancel_at_period_end,
              !.canceled_at = IF ev.canceled_at # 0 /\ ev.canceled_at # NoTime
                              THEN FromTimestamp(ev.canceled_at) ELSE @]

\* handle_subscription_updated(ev) as a function of the subscriptions: no row
\* with the id is a no-op; several rows with the id raise
\* MultipleObjectsReturned before anything is written
UpdatedResult(sb, ev) ==
    LET m == SubsWithId(sb, ev.id) IN
    IF Cardinality(m) = 1
    THEN LET u == CHOOSE x \in m : TRUE IN [sb EXCEPT ![u] = ApplyUpdated(sb[u], ev)]
    ELSE sb

HandleSubscriptionUpdated(ev) ==
    /\ subs' = UpdatedResult(subs, ev)
    /\ okCalls' = Disturbed(subs', planQuota)
    /\ last' = [op |-> "updated", id |-> ev.id, status |-> ev.status,
                response |-> Response(Cardinality(SubsWithId(subs, ev.id)) > 1),
                mails |-> {}, mailFailed |-> FALSE]
    /\ UNCHANGED <<now, planQuota, usage, incs, gapCall, pc, loc, subRows, listings>>

\* faulty variant: a deletion of a subscription that is already CANCELED revives it
ApplyDeleted_Toggle(s, t) ==
    [s EXCEPT !.status = IF @ = "CANCELED" THEN "ACTIVE" ELSE "CANCELED", !.canceled_at = t]

\* the fields handle_subscription_deleted writes at instant t
ApplyDeleted(s, t) == [s EXCEPT !.status = "CANCELED", !.canceled_at = t]

\* handle_subscription_deleted as a function of the subscriptions
DeletedResult(sb, sid, t) ==
    LET m == SubsWithId(sb, sid) IN
    IF Cardinality(m) = 1
    THEN LET u == CHOOSE x \in m : TRUE IN [sb EXCEPT ![u] = ApplyDeleted(sb[u], t)]
    ELSE sb

\* handle_subscription_deleted(ev): the row is saved, then the cancellation
\* e-mail is sent inside try/except
HandleSubscriptionDeleted(ev, send) ==
    LET m == SubsWithId(subs, ev.id)
        mails == IF Cardinality(m) = 1 THEN {"subscription_cancelled"} ELSE {}
        raised == Cardinality(m) > 1 \/ Escapes(mails, send) IN
    /\ subs' = DeletedResult(subs, ev.id, now)
    /\ okCalls' = Disturbed(subs', planQuota)
    /\ last' = [op |-> "deleted", id |-> ev.id, response |-> Response(raised),
                mails |-> mails, mailFailed |-> MailFailed(mails, send)]
    /\ UNCHANGED <<now, planQuota, usage, incs, gapCall, pc, loc, subRows, listings>>

\* the subscriptions a payment handler finds: `if not subscription_id: return`
\* comes before the lookup
InvoiceSubs(sb, sid) == IF sid = NoId THEN {} ELSE SubsWithId(sb, sid)

\* handle_payment_failed as a function of the subscriptions
PaymentFailedResult(sb, sid) ==
    LET m == InvoiceSubs(sb, sid) IN
    IF Cardinality(m) = 1
    THEN LET u == CHOOSE x \in m : TRUE IN [sb EXCEPT ![u].status = "PAST_DUE"]
    ELSE sb

\* handle_payment_failed(ev)
HandlePaymentFailed(ev, send) ==
    LET m == InvoiceSubs(subs, ev.subscription)
        mails == IF Cardinality(m) = 1 THEN {"payment_failed"} ELSE {}
        raised == Cardinality(m) > 1 \/ Escapes(mails, send) IN
    /\ subs' = PaymentFailedResult(subs, ev.subscription)
    /\ okCalls' = Disturbed(subs', planQuota)
    /\ last' = [op |-> "payment_failed", id |-> ev.subscription, response |-> Response(raised),
                mails |-> mails, mailFailed |-> MailFailed(mails, send)]
    /\ UNCHANGED <<now, planQuota, usage, incs, gapCall, pc, loc, subRows, listings>>

\* faulty variant: a paid invoice revives a CANCELED subscription as well
PaymentRecovers_Canceled(st) == st \in {"PAST_DUE", "UNPAID", "CANCELED"}

\* if subscription.status in ['PAST_DUE', 'UNPAID']
PaymentRecovers(st) == st \in {"PAST_DUE", "UNPAID"}

\* handle_payment_succeeded as a function of the subscriptions
PaymentSucceededResult(sb, sid) ==
    LET m == InvoiceSubs(sb, sid) IN
    IF Cardinality(m) = 1
    THEN LET u == CHOOSE x \in m : TRUE IN
         IF PaymentRecovers(sb[u].status) THEN [sb EXCEPT ![u].status = "ACTIVE"] ELSE sb
    ELSE sb

\* handle_payment_succeeded(ev): the status is saved, then
\* Usage.get_or_create_current(subscription.user) runs; no e-mail is sent
HandlePaymentSucceeded(ev) ==
    LET m == InvoiceSubs(subs, ev.subscription)
        known == Cardinality(m) = 1
        g == IF known THEN GetOrCreate(usage, CHOOSE x \in m : TRUE, now)
             ELSE [tbl |-> usage, id |-> NoRec, created |-> FALSE, raised |-> FALSE]
        raised == Cardinality(m) > 1 \/ g.raised IN
    /\ Len(g.tbl) <= MaxRecords
    /\ subs' = PaymentSucceededResult(subs, ev.subscription)
    /\ usage' = g.tbl
    /\ incs' = Grown(incs, g.tbl)
    /\ okCalls' = Disturbed(subs', planQuota)
    /\ last' = [op |-> "payment_succeeded", id |-> ev.subscription,
                response |-> Response(raised), mails |-> {}, mailFailed |-> FALSE]
    /\ UNCHANGED <<now, planQuota, gapCall, pc, loc, subRows, listings>>

\* ------------------------------------------------------ events, bounded
EvTimes == {1, 2}            \* epoch seconds carried by events

\* checkout events of the quota specification: period bounds fixed
CheckoutEvents ==
    [user : Callers, plan : Plans, customer : {"cus_1"}, id : {"sub_1"},
     status : {"active", "trialing", "past_due"},
     current_period_start : {1}, current_period_end : {2}]

\* subscription.updated events: canceled_at is absent (NoTime), 0 or a timestamp
UpdatedEvents ==
    [id : SubIds, status : StripeStatuses,
     current_period_start : {1}, current_period_end : EvTimes,
     cancel_at_period_end : BOOLEAN, canceled_at : {NoTime, 0, 1}]

\* subscription.deleted events
DeletedEvents == [id : SubIds]

\* invoice events, of a subscription or of none
InvoiceEvents == [subscription : SubIds \cup {NoId}]

QuotaUpdatedEvents ==
    {ev \in UpdatedEvents : /\ ev.id = "sub_1" /\ ev.current_period_start = 1 /\ ev.current_period_end = 2
                            /\ ev.cancel_at_period_end = FALSE /\ ev.canceled_at = NoTime}

\* ------------------------------------------------------- specifications
Next ==
    \/ Tick
    \/ \E q \in 0..MaxQuota : AdminSetQuota(FinitePlan, q)
    \/ \E u \in Callers : GetOrCreateCurrent(u)
    \/ \E u \in Callers : CheckQuota(u)
    \/ \E u \in Callers : Consume(u, Delivered)
    \/ \E ev \in CheckoutEvents : HandleCheckoutCompleted(ev, Delivered)
    \/ \E ev \in QuotaUpdatedEvents : HandleSubscriptionUpdated(ev)

Spec == Init /\ [][Next]_vars

\* ---------------------------------------- the reconciler on its own
\* checkout events with every period bound and both subscription ids
BillingCheckoutEvents ==
    {ev \in [user : Callers, plan : Plans, customer : {"cus_1"}, id : SubIds,
             status : {"active", "trialing", "incomplete"},
             current_period_start : EvTimes, current_period_end : EvTimes] :
        ev.current_period_start <= ev.current_period_end}

\* the four values a checkout session must carry
RequiredData == {"user", "plan", "customer", "id"}

\* checkout sessions that lack one of them
MalformedCheckoutEvents ==
    {[[user |-> "u1", plan |-> FinitePlan, customer |-> "cus_1", id |-> "sub_1",
       status |-> "active", current_period_start |-> 1, current_period_end |-> 2]
          EXCEPT ![f] = NoId] : f \in RequiredData}

\* the seeded plans, nobody subscribed yet
BillingInit ==
    /\ now = 0
    /\ planQuota = [p \in Plans |-> IF p = FinitePlan THEN MaxQuota ELSE UNLIMITED]
    /\ subs = [u \in Users |-> NoSub]
    /\ usage = <<>>
    /\ incs = <<>>
    /\ okCalls = [u \in Users |-> 0]
    /\ gapCall = [u \in Users |-> FALSE]
    /\ last = [op |-> "init"]
    /\ pc = [p \in Procs |-> "idle"]
    /\ loc = [p \in Procs |-> Idle]
    /\ subRows = RowsOf(subs)
    /\ listings = 0

BillingNext ==
    \/ \E ev \in BillingCheckoutEvents \cup MalformedCheckoutEvents, send \in SendOutcomes :
          HandleCheckoutCompleted(ev, send)
    \/ \E ev \in UpdatedEvents : HandleSubscriptionUpdated(ev)
    \/ \E ev \in DeletedEvents, send \in SendOutcomes : HandleSubscriptionDeleted(ev, send)
    \/ \E ev \in InvoiceEvents, send \in SendOutcomes : HandlePaymentFailed(ev, send)
    \/ \E ev \in InvoiceEvents : HandlePaymentSucceeded(ev)

Billing == BillingInit /\ [][BillingNext]_vars

\* ------------------------------------------------- concurrent requests
\* No transaction, lock or unique constraint guards the Usage table (autocommit),
\* so a request is a sequence of single statements, each atomic, that workers
\* interleave freely: the SELECT of get_or_create, its INSERT, and the UPDATE of
\* save().  The code between two statements (reading the subscription and the
\* plan, the comparison) runs with the statement before it; timezone.now() is
\* read with the SELECT.

MaxOk == MaxQuota + Cardinality(Procs)   \* consume calls started per month

Request(op, u, t, id, count) ==
    [op |-> op, user |-> u, t |-> t, id |-> id, count |-> count]

\* check_usage_quota after it got its row (lines 238-244): has_quota
HasQuota(u, count) ==
    LET q == planQuota[subs[u].plan] IN
    IsUnlimited(q) \/ QuotaAllowed(QuotaRemaining(q, count))

\* increment_usage starts: check_usage_quota up to the SELECT of its get_or_create
ConsumeCheckGet(p, u) ==
    LET m == Matches(usage, u, now)
        gated == ~HasSub(u) \/ ~StatusActive(subs[u].status)
        id == IF Cardinality(m) = 1 THEN CHOOSE i \in m : TRUE ELSE NoRec
        count == IF id # NoRec THEN usage[id].descriptions_generated ELSE 0
        go == ~gated /\ (m = {} \/ (id # NoRec /\ HasQuota(u, count))) IN
    /\ pc[p] = "idle"
    /\ okCalls[u] < MaxOk
    /\ pc' = [pc EXCEPT ![p] = IF ~go THEN "idle"
                               ELSE IF m = {} THEN "chk_create" ELSE "inc_get"]
    /\ loc' = [loc EXCEPT ![p] = IF go THEN Request("consume", u, now, id, count) ELSE Idle]
    /\ last' = IF go THEN last
               ELSE [op |-> "consume", user |-> u,
                     ret |-> IF ~gated /\ Cardinality(m) > 1 THEN "raised" ELSE "false",
                     mails |-> {}]
    /\ gapCall' = IF InGap(now) /\ ~gated THEN [gapCall EXCEPT ![u] = TRUE] ELSE gapCall
    /\ UNCHANGED <<now, planQuota, subs, usage, okCalls, incs, subRows, listings>>

\* the INSERT of check_usage_quota's get_or_create, then the quota comparison
ConsumeCheckCreate(p) ==
    LET u == loc[p].user
        tbl == Append(usage, NewUsage(u, loc[p].t))
        go == HasQuota(u, 0) IN
    /\ pc[p] = "chk_create"
    /\ Len(tbl) <= MaxRecords
    /\ usage' = tbl
    /\ incs' = Grown(incs, tbl)
    /\ pc' = [pc EXCEPT ![p] = IF go THEN "inc_get" ELSE "idle"]
    /\ loc' = [loc EXCEPT ![p] = IF go THEN Request("consume", u, loc[p].t, Len(tbl), 0)
                                 ELSE Idle]
    /\ last' = IF go THEN last ELSE [op |-> "consume", user |-> u, ret |-> "false", mails |-> {}]
    /\ UNCHANGED <<now, planQuota, subs, okCalls, gapCall, subRows, listings>>

\* the SELECT of increment_usage's own get_or_create (line 259)
ConsumeIncGet(p) ==
    LET u == loc[p].user
        m == Matches(usage, u, now)
        id == IF Cardinality(m) = 1 THEN CHOOSE i \in m : TRUE ELSE NoRec IN
    /\ pc[p] = "inc_get"
    /\ pc' = [pc EXCEPT ![p] = IF m = {} THEN "inc_create"
                               ELSE IF id # NoRec THEN "inc_save" ELSE "idle"]
    /\ loc' = [loc EXCEPT ![p] =
                 IF m = {} THEN Request("consume", u, now, NoRec, 0)
                 ELSE IF id # NoRec
                 THEN Request("consume", u, now, id, usage[id].descriptions_generated)
                 ELSE Idle]
    /\ last' = IF m = {} \/ id # NoRec THEN last
               ELSE [op |-> "consume", user |-> u, ret |-> "raised", mails |-> {}]
    /\ gapCall' = IF InGap(now) THEN [gapCall EXCEPT ![u] = TRUE] ELSE gapCall
    /\ UNCHANGED <<now, planQuota, subs, usage, okCalls, incs, subRows, listings>>

\* the INSERT of increment_usage's get_or_create
ConsumeIncCreate(p) ==
    LET u == loc[p].user
        tbl == Append(usage, NewUsage(u, loc[p].t)) IN
    /\ pc[p] = "inc_create"
    /\ Len(tbl) <= MaxRecords
    /\ usage' = tbl
    /\ incs' = Grown(incs, tbl)
    /\ pc' = [pc EXCEPT ![p] = "inc_save"]
    /\ loc' = [loc EXCEPT ![p] = Request("consume", u, loc[p].t, Len(tbl), 0)]
    /\ UNCHANGED <<now, planQuota, subs, okCalls, gapCall, last, subRows, listings>>

\* usage.descriptions_generated += 1; usage.save(): the UPDATE writes the value
\* computed from the row as this worker read it.  increment_usage returns True.
SavedCount(p) == Incremented(loc[p].count)

ConsumeSave(p) ==
    LET u == loc[p].user
        id == loc[p].id IN
    /\ pc[p] = "inc_save"
    /\ usage' = [usage EXCEPT ![id].descriptions_generated = SavedCount(p)]
    /\ incs' = [incs EXCEPT ![id] = @ + 1]
    /\ okCalls' = IF okCalls[u] >= 0 THEN [okCalls EXCEPT ![u] = @ + 1] ELSE okCalls
    /\ pc' = [pc EXCEPT ![p] = "idle"]
    /\ loc' = [loc EXCEPT ![p] = Idle]
    /\ last' = [op |-> "consume", user |-> u, ret |-> "true",
                mails |-> IF QuotaWarningDue(planQuota[subs[u].plan], SavedCount(p))
                          THEN {"quota_warning"} ELSE {}]
    /\ UNCHANGED <<now, planQuota, subs, gapCall, subRows, listings>>

\* Usage.get_or_create_current called on its own: the SELECT
GocGet(p, u) ==
    LET m == Matches(usage, u, now)
        id == IF Cardinality(m) = 1 THEN CHOOSE i \in m : TRUE ELSE NoRec IN
    /\ pc[p] = "idle"
    /\ pc' = [pc EXCEPT ![p] = IF m = {} THEN "goc_create" ELSE "idle"]
    /\ loc' = [loc EXCEPT ![p] = IF m = {} THEN Request("goc", u, now, NoRec, 0) ELSE Idle]
    /\ last' = IF m = {} THEN last
               ELSE [op |-> "goc", user |-> u, id |-> id, month |-> MonthOf(now)]
    /\ UNCHANGED <<now, planQuota, subs, usage, okCalls, incs, gapCall, subRows, listings>>

\* ... and its INSERT; the call returns the row it created
GocCreate(p) ==
    LET u == loc[p].user
        tbl == Append(usage, NewUsage(u, loc[p].t)) IN
    /\ pc[p] = "goc_create"
    /\ Len(tbl) <= MaxRecords
    /\ usage' = tbl
    /\ incs' = Grown(incs, tbl)
    /\ pc' = [pc EXCEPT ![p] = "idle"]
    /\ loc' = [loc EXCEPT ![p] = Idle]
    /\ last' = [op |-> "goc", user |-> u, id |-> Len(tbl), month |-> MonthOf(loc[p].t)]
    /\ UNCHANGED <<now, planQuota, subs, okCalls, gapCall, subRows, listings>>

\* the state right after handle_checkout_session_completed created the
\* subscription of u1 (ACTIVE, finite plan) and its first usage row, at tick 0
ConcInit ==
    /\ now = 0
    /\ planQuota \in {pq \in [Plans -> Quotas] :
                        pq[FinitePlan] # UNLIMITED /\ pq[UnlimitedPlan] = UNLIMITED}
    /\ subs = [u \in Users |->
                 IF u \in Callers
                 THEN [plan |-> FinitePlan, stripe_subscription_id |-> "sub_1",
                       status |-> MapStripeStatus("active"),
                       current_period_start |-> FromTimestamp(1),
                       current_period_end |-> FromTimestamp(2),
                       cancel_at_period_end |-> FALSE, canceled_at |-> NoTime]
                 ELSE NoSub]
    /\ usage = <<NewUsage("u1", 0)>>
    /\ incs = <<0>>
    /\ okCalls = [u \in Users |-> 0]
    /\ gapCall = [u \in Users |-> FALSE]
    /\ last = [op |-> "checkout", user |-> "u1", created |-> TRUE,
               event |-> [user |-> "u1", plan |-> FinitePlan, customer |-> "cus_1", id |-> "sub_1",
                          status |-> "active",
                          current_period_start |-> 1, current_period_end |-> 2],
               response |-> Response(FALSE),
               mails |-> {"subscription_confirmation"}, mailFailed |-> FALSE]
    /\ pc = [p \in Procs |-> "idle"]
    /\ loc = [p \in Procs |-> Idle]
    /\ subRows = RowsOf(subs)
    /\ listings = 0

ConcNext ==
    \/ Tick
    \/ \E p \in Procs, u \in Callers : ConsumeCheckGet(p, u)
    \/ \E p \in Procs : ConsumeCheckCreate(p)
    \/ \E p \in Procs : ConsumeIncGet(p)
    \/ \E p \in Procs : ConsumeIncCreate(p)
    \/ \E p \in Procs : ConsumeSave(p)
    \/ \E p \in Procs, u \in Callers : GocGet(p, u)
    \/ \E p \in Procs : GocCreate(p)

Conc == ConcInit /\ [][ConcNext]_vars

\* ------------------------------------------------- generation requests
\* ListingService.create_listing_with_description / regenerate_description.
\* A request calls check_usage_quota, then the text-generation provider (an
\* HTTP call of up to 30 seconds), then increment_usage; other requests and
\* webhook events run between these calls.  Each of the three calls is taken
\* as one step here.

\* what DeepSeekService.generate_description does: it returns the description,
\* returns an error text (RequestException, KeyError, IndexError are turned
\* into text), or raises something else.  A text is a sequence of words.
GoodText == <<"Charming", "home">>
ApiErrorText == <<"API Error", ": timeout">>
ParseErrorText == <<"Error", " parsing API response">>
ProviderOutcomes ==
    {[kind |-> "returns", text |-> GoodText],
     [kind |-> "returns", text |-> ApiErrorText],
     [kind |-> "returns", text |-> ParseErrorText],
     [kind |-> "raises", text |-> <<>>]}
NoAnswer == [kind |-> "none", text |-> <<>>]      \* the provider was not called

\* str.startswith
StartsWith(text, prefix) ==
    Len(text) >= Len(prefix) /\ SubSeq(text, 1, Len(prefix)) = prefix

\* faulty variant: the error texts are not recognised
GenerationFailed_Never(text) == FALSE

\* description.startswith("API Error") or description.startswith("Error")
GenerationFailed(text) == StartsWith(text, <<"API Error">>) \/ StartsWith(text, <<"Error">>)

\* faulty variant: the request goes on without quota
OverQuota_Never(has_quota) == FALSE

\* if not has_quota: return .., False, "You have exceeded your monthly description quota.."
OverQuota(has_quota) == ~has_quota

GenKinds == {"create", "regenerate"}

\* the locals of a request: what check_usage_quota returned, whether the
\* provider was called and what it answered
GenRequest(kind, u, checked, called, answer) ==
    [op |-> kind, user |-> u, checked |-> checked, called |-> called, answer |-> answer]

\* what a finished request returned and did: success and message of the
\* returned tuple, whether it created a listing, whether it called the
\* provider, after which check result and with which answer, what its
\* increment_usage returned ("none": not called) and by how much that call
\* incremented the row
GenDone(kind, u, success, message, listing, called, checked, answer, ret, charged, mails, failed) ==
    [op |-> "gen", kind |-> kind, user |-> u, success |-> success, message |-> message,
     listing |-> listing, called |-> called, checked |-> checked, answer |-> answer,
     ret |-> ret, charged |-> charged, mails |-> mails, mailFailed |-> failed]

\* the request starts: check_usage_quota, and the early return without quota
\* (MultipleObjectsReturned leaves the request: the call is outside its try).
\* regenerate_description is for an existing listing.
GenCheck(p, u, kind) ==
    LET c == CheckUsageQuota(subs, planQuota, usage, u, now)
        over == c.kind = "raised" \/ OverQuota(c.allowed) IN
    /\ pc[p] = "idle"
    /\ kind = "regenerate" => listings > 0
    /\ Len(c.tbl) <= MaxRecords
    /\ usage' = c.tbl
    /\ incs' = Grown(incs, c.tbl)
    /\ pc' = [pc EXCEPT ![p] = IF over THEN "idle" ELSE "gen_generate"]
    /\ loc' = [loc EXCEPT ![p] = IF over THEN Idle
                                 ELSE GenRequest(kind, u, c.allowed, FALSE, NoAnswer)]
    /\ last' = IF over
               THEN GenDone(kind, u, FALSE, IF c.kind = "raised" THEN "exception" ELSE "quota",
                            FALSE, FALSE, c.allowed, NoAnswer, "none", 0, {}, FALSE)
               ELSE [op |-> "gen_check", user |-> u]
    /\ UNCHANGED <<now, planQuota, subs, okCalls, gapCall, subRows, listings>>

\* Listing.objects.create (create only), then the provider is called and
\* answers d; an error text or an exception ends the request without
\* increment_usage
GenGenerate(p, d) ==
    LET u == loc[p].user
        kind == loc[p].op
        created == kind = "create"
        failed == d.kind = "returns" /\ GenerationFailed(d.text)
        raised == d.kind = "raises" IN
    /\ pc[p] = "gen_generate"
    /\ created => listings < MaxListings
    /\ listings' = IF created THEN listings + 1 ELSE listings
    /\ pc' = [pc EXCEPT ![p] = IF failed \/ raised THEN "idle" ELSE "gen_increment"]
    /\ loc' = [loc EXCEPT ![p] = IF failed \/ raised THEN Idle
                                 ELSE GenRequest(kind, u, loc[p].checked, TRUE, d)]
    /\ last' = IF failed \/ raised
               THEN GenDone(kind, u, FALSE, IF raised THEN "exception" ELSE "generation",
                            created, TRUE, loc[p].checked, d, "none", 0, {}, FALSE)
               ELSE [op |-> "gen_generate", user |-> u]
    /\ UNCHANGED <<now, planQuota, subs, usage, okCalls, incs, gapCall, subRows>>

\* increment_usage(user), its return value dropped; an exception leaving it is
\* caught by the request's `except Exception` and reported as failure
GenIncrement(p, send) ==
    LET u == loc[p].user
        kind == loc[p].op
        r == ConsumeResult(subs, planQuota, usage, u, now)
        escaped == Escapes(r.mails, send)
        raised == r.ret = "raised" \/ escaped IN
    /\ pc[p] = "gen_increment"
    /\ Len(r.tbl) <= MaxRecords
    /\ \A i \in 1..Len(r.tbl) : r.tbl[i].descriptions_generated <= MaxCount
    /\ usage' = r.tbl
    /\ okCalls' = IF r.ret = "true" /\ okCalls[u] >= 0
                  THEN [okCalls EXCEPT ![u] = @ + 1] ELSE okCalls
    /\ incs' = IF r.ret = "true"
               THEN [Grown(incs, r.tbl) EXCEPT ![r.id] = @ + 1]
               ELSE Grown(incs, r.tbl)
    /\ gapCall' = IF InGap(now) /\ r.kind \in {"finite", "unlimited"}
                  THEN [gapCall EXCEPT ![u] = TRUE] ELSE gapCall
    /\ pc' = [pc EXCEPT ![p] = "idle"]
    /\ loc' = [loc EXCEPT ![p] = Idle]
    /\ last' = GenDone(kind, u, ~raised, IF raised THEN "exception" ELSE "done",
                       kind = "create", TRUE, loc[p].checked, loc[p].answer,
                       IF escaped THEN "raised" ELSE r.ret,
                       IF r.ret = "true" THEN 1 ELSE 0,
                       r.mails, MailFailed(r.mails, send))
    /\ UNCHANGED <<now, planQuota, subs, subRows, listings>>

\* the checkout events of a user who subscribes or changes plan
GenCheckoutEvents ==
    [user : Callers, plan : Plans, customer : {"cus_1"}, id : {"sub_1"}, status : {"active"},
     current_period_start : {1}, current_period_end : {2}]

GenInvoiceEvents == [subscription : {"sub_1"}]

GenDeletedEvents == [id : {"sub_1"}]

\* the seeded plans, nobody subscribed, no listing
GenInit ==
    /\ now = 0
    /\ planQuota \in {pq \in [Plans -> Quotas] :
                        pq[FinitePlan] \in 1..MaxQuota /\ pq[UnlimitedPlan] = UNLIMITED}
    /\ subs = [u \in Users |-> NoSub]
    /\ usage = <<>>
    /\ incs = <<>>
    /\ okCalls = [u \in Users |-> 0]
    /\ gapCall = [u \in Users |-> FALSE]
    /\ last = [op |-> "init"]
    /\ pc = [p \in Procs |-> "idle"]
    /\ loc = [p \in Procs |-> Idle]
    /\ subRows = RowsOf(subs)
    /\ listings = 0

GenNext ==
    \/ \E p \in Procs, u \in Callers, kind \in GenKinds : GenCheck(p, u, kind)
    \/ \E p \in Procs, d \in ProviderOutcomes : GenGenerate(p, d)
    \/ \E p \in Procs, send \in SendOutcomes : GenIncrement(p, send)
    \/ \E ev \in GenCheckoutEvents, send \in SendOutcomes : HandleCheckoutCompleted(ev, send)
    \/ \E ev \in GenDeletedEvents, send \in SendOutcomes : HandleSubscriptionDeleted(ev, send)
    \/ \E ev \in GenInvoiceEvents, send \in SendOutcomes : HandlePaymentFailed(ev, send)
    \/ \E ev \in GenInvoiceEvents : HandlePaymentSucceeded(ev)

Gen == GenInit /\ [][GenNext]_vars

\* -------------------------------------------------- concurrent checkouts
\* UserSubscription.objects.update_or_create(user=user, defaults=..), statement
\* by statement: inside one transaction, SELECT .. FOR UPDATE of the user's
\* row; if there is none, INSERT; if the INSERT breaks the unique constraint
\* of the one-to-one user column (IntegrityError: another worker inserted in
\* between), the row is fetched and updated instead.  A row that was found is
\* locked until the transaction commits, so its update is one step.

\* faulty variant: the user column carries no unique constraint
UniqueViolation_Never(rows) == FALSE

\* user = models.OneToOneField(User, ..): a second row of the user is rejected
UniqueViolation(rows) == rows >= 1

\* the row update_or_create writes for the event
CheckoutRow(ev) ==
    [plan |-> ev.plan,
     stripe_subscription_id |-> ev.id,
     status |-> MapStripeStatus(ev.status),
     current_period_start |-> FromTimestamp(ev.current_period_start),
     current_period_end |-> FromTimestamp(ev.current_period_end),
     cancel_at_period_end |-> FALSE,
     canceled_at |-> NoTime]

\* what a finished checkout handler leaves in the history; conflict: its
\* INSERT was rejected
CheckoutDone(ev, created, conflict, raised, mails, send) ==
    [op |-> "checkout", user |-> ev.user, created |-> created, event |-> ev,
     conflict |-> conflict, response |-> Response(raised),
     mails |-> mails, mailFailed |-> MailFailed(mails, send)]

\* the handler starts: the SELECT .. FOR UPDATE; a row found is updated and
\* committed (created = False: no usage row, no e-mail)
CheckoutSelect(p, ev) ==
    LET u == ev.user IN
    /\ pc[p] = "idle"
    /\ pc' = [pc EXCEPT ![p] = IF HasSub(u) THEN "idle" ELSE "co_insert"]
    /\ loc' = [loc EXCEPT ![p] = IF HasSub(u) THEN Idle ELSE [op |-> "checkout", event |-> ev]]
    /\ subs' = IF HasSub(u) THEN [subs EXCEPT ![u] = CheckoutRow(ev)] ELSE subs
    /\ okCalls' = Disturbed(subs', planQuota)
    /\ last' = IF HasSub(u) THEN CheckoutDone(ev, FALSE, FALSE, FALSE, {}, Delivered)
               ELSE [op |-> "checkout_select", user |-> u]
    /\ UNCHANGED <<now, planQuota, usage, incs, gapCall, subRows, listings>>

\* the INSERT: it creates the user's row, or is rejected, and then the row
\* that is there is updated in place
CheckoutInsert(p) ==
    LET ev == loc[p].event
        u == ev.user
        conflict == UniqueViolation(subRows[u]) IN
    /\ pc[p] = "co_insert"
    /\ subs' = [subs EXCEPT ![u] = CheckoutRow(ev)]
    /\ subRows' = IF conflict THEN subRows ELSE [subRows EXCEPT ![u] = @ + 1]
    /\ okCalls' = Disturbed(subs', planQuota)
    /\ pc' = [pc EXCEPT ![p] = IF conflict THEN "idle" ELSE "co_usage"]
    /\ loc' = [loc EXCEPT ![p] = IF conflict THEN Idle ELSE @]
    /\ last' = IF conflict THEN CheckoutDone(ev, FALSE, TRUE, FALSE, {}, Delivered)
               ELSE [op |-> "checkout_insert", user |-> u]
    /\ UNCHANGED <<now, planQuota, usage, incs, gapCall, listings>>

\* created: Usage.get_or_create_current(user), then the confirmation e-mail
CheckoutUsage(p, send) ==
    LET ev == loc[p].event
        u == ev.user
        g == GetOrCreate(usage, u, now)
        mails == IF g.raised THEN {} ELSE {"subscription_confirmation"} IN
    /\ pc[p] = "co_usage"
    /\ Len(g.tbl) <= MaxRecords
    /\ usage' = g.tbl
    /\ incs' = Grown(incs, g.tbl)
    /\ pc' = [pc EXCEPT ![p] = "idle"]
    /\ loc' = [loc EXCEPT ![p] = Idle]
    /\ last' = CheckoutDone(ev, TRUE, FALSE, g.raised \/ Escapes(mails, send), mails, send)
    /\ UNCHANGED <<now, planQuota, subs, okCalls, gapCall, subRows, listings>>

\* checkout events of one user, for either plan and either subscription id
SignupEvents ==
    [user : Callers, plan : Plans, customer : {"cus_1"}, id : SubIds, status : {"active"},
     current_period_start : {1}, current_period_end : {2}]

SignupNext ==
    \/ \E p \in Procs, ev \in SignupEvents : CheckoutSelect(p, ev)
    \/ \E p \in Procs : CheckoutInsert(p)
    \/ \E p \in Procs, send \in SendOutcomes : CheckoutUsage(p, send)
    \/ \E ev \in QuotaUpdatedEvents : HandleSubscriptionUpdated(ev)
    \/ \E ev \in DeletedEvents, send \in SendOutcomes : HandleSubscriptionDeleted(ev, send)
    \/ \E ev \in InvoiceEvents, send \in SendOutcomes : HandlePaymentFailed(ev, send)
    \/ \E ev \in InvoiceEvents : HandlePaymentSucceeded(ev)

Signup == BillingInit /\ [][SignupNext]_vars


\* ================================================================ claims

\* the user's subscription is ACTIVE or TRIALING on a plan with a finite quota
ActiveFinite(u) ==
    /\ HasSub(u)
    /\ StatusActive(subs[u].status)
    /\ ~IsUnlimited(planQuota[subs[u].plan])

QuotaOf(u) == planQuota[subs[u].plan]

\* the rows of u whose stored interval contains now
Current(u) == Matches(usage, u, now)

\* C1: on a finite plan with quota q, ACTIVE or TRIALING, from a fresh record:
\* after N consume calls that returned True within the calendar month, the
\* current record counts N and the remaining quota is max(0, q - N); consume
\* returns True while N < q and False once N has reached q.
C1_ConsumeCountsToQuota ==
    \A u \in Callers :
        (ActiveFinite(u) /\ okCalls[u] >= 0) =>
            LET n == okCalls[u]
                q == QuotaOf(u) IN
            /\ n > 0 => Current(u) # {}
            /\ \A i \in Current(u) :
                  /\ usage[i].descriptions_generated = n
                  /\ RemainingQuota(q, usage[i].descriptions_generated) = Max(0, q - n)
            /\ ConsumeResult(subs, planQuota, usage, u, now).ret
                  = (IF n < q THEN "true" ELSE "false")

\* C1 outside the last second of the month: the same statement, for the months
\* in which no consume call of the user ran after the stored period_end
C1_OutsideLastSecond ==
    \A u \in Callers :
        (ActiveFinite(u) /\ okCalls[u] >= 0 /\ ~gapCall[u] /\ ~InGap(now)) =>
            LET n == okCalls[u]
                q == QuotaOf(u) IN
            /\ n > 0 => Current(u) # {}
            /\ \A i \in Current(u) :
                  /\ usage[i].descriptions_generated = n
                  /\ RemainingQuota(q, usage[i].descriptions_generated) = Max(0, q - n)
            /\ ConsumeResult(subs, planQuota, usage, u, now).ret
                  = (IF n < q THEN "true" ELSE "false")

\* a step of Spec that is the call increment_usage(u): every operation writes
\* its own tag to last, and only the clock changes now
ConsumeStep(u) == now' = now /\ last'.op = "consume" /\ last'.user = u

\* C2: when checkQuota reports not allowed (no subscription, inactive status or
\* quota exhausted), consume returns False, attempts no notification, and leaves
\* every existing usage row and every subscription as it was; after a refusal
\* at count = quota, checkQuota reports (False, 0).
C2_RefusedConsumeChangesNothing ==
    [][\A u \in Callers :
        (ConsumeStep(u) /\ ~CheckUsageQuota(subs, planQuota, usage, u, now).allowed) =>
            /\ last'.ret = "false"
            /\ last'.mails = {}
            /\ subs' = subs
            /\ planQuota' = planQuota
            /\ \A i \in 1..Len(usage) : usage'[i] = usage[i]
            /\ \A i \in 1..Len(usage') : i > Len(usage) => usage'[i].descriptions_generated = 0
            /\ \A i \in Matches(usage', u, now') :
                  (ActiveFinite(u) /\ usage'[i].descriptions_generated = QuotaOf(u)) =>
                      LET c == CheckUsageQuota(subs', planQuota', usage', u, now') IN
                      ~c.allowed /\ c.remaining = 0
      ]_vars

\* C2 witness: consume was refused on an exhausted finite quota (count = quota > 0)
C2_Witness ==
    /\ last.op = "consume" /\ last.ret = "false"
    /\ ActiveFinite("u1") /\ QuotaOf("u1") > 0
    /\ \E i \in Current("u1") : usage[i].descriptions_generated = QuotaOf("u1")

C4_UnlimitedAlwaysAllowed ==
    \A u \in Callers :
        (HasSub(u) /\ StatusActive(subs[u].status) /\ QuotaOf(u) = UNLIMITED) =>
            LET c == CheckUsageQuota(subs, planQuota, usage, u, now) IN
            /\ c.allowed
            /\ c.kind = "unlimited"
            /\ ConsumeResult(subs, planQuota, usage, u, now).ret = "true"

\* C4 witness: consume returned True on the unlimited plan with the count
\* already above every finite quota
C4_Witness ==
    /\ last.op = "consume" /\ last.user = "u1" /\ last.ret = "true"
    /\ HasSub("u1") /\ subs["u1"].status = "TRIALING" /\ QuotaOf("u1") = UNLIMITED
    /\ \E i \in Current("u1") : usage[i].descriptions_generated > MaxQuota

\* C5: on a finite plan the remaining value checkQuota reports is
\* max(0, quota - count), never negative, and allowed holds exactly when it is > 0.
C5_RemainingIsClamped ==
    \A u \in Callers :
        ActiveFinite(u) =>
            LET c == CheckUsageQuota(subs, planQuota, usage, u, now) IN
            c.kind = "finite" =>
                /\ c.remaining = RemainingQuota(QuotaOf(u), c.tbl[c.id].descriptions_generated)
                /\ c.remaining >= 0
                /\ c.allowed <=> (c.remaining > 0)

\* C6: two sequential get_or_create_current calls of a user in the same calendar
\* month return the same row, and the second creates none.
C6_GetOrCreateIdempotent ==
    (last.op = "goc" /\ last.month = MonthOf(now)) =>
        LET g == GetOrCreate(usage, last.user, now) IN
        /\ ~g.created
        /\ g.id = last.id
        /\ g.tbl = usage

\* C6 outside the last second of the month: the same statement for a second
\* call made at an instant up to the stored period_end
C6_OutsideLastSecond ==
    (last.op = "goc" /\ last.month = MonthOf(now) /\ ~InGap(now)) =>
        LET g == GetOrCreate(usage, last.user, now) IN
        /\ ~g.created
        /\ g.id = last.id
        /\ g.tbl = usage

\* C7: no reachable state has two distinct current rows for one user, also
\* when two get_or_create_current calls run concurrently at an uncovered instant.
C7_AtMostOneCurrentRow ==
    \A u \in Users : Cardinality(Current(u)) <= 1

\* C8: increments of one row are atomic: its descriptions_generated equals the
\* number of increments committed to it, in every interleaving.
C8_NoLostIncrement ==
    \A i \in 1..Len(usage) : usage[i].descriptions_generated = incs[i]

\* C9: with at most k consume calls of a user in flight (k workers), the calls
\* that returned True within one month never exceed quota + (k - 1).  Stated for
\* the months in which no consume call ran in the last second, after period_end.
C9_OvershootBounded ==
    \A u \in Callers :
        (ActiveFinite(u) /\ okCalls[u] >= 0 /\ ~gapCall[u]) =>
            okCalls[u] <= QuotaOf(u) + (Cardinality(Procs) - 1)

\* the five fields a SubscriptionUpdated event writes
UpdatedFields(s) ==
    <<s.status, s.current_period_start, s.current_period_end,
      s.cancel_at_period_end, s.canceled_at>>

\* C10: applying the same SubscriptionUpdated event twice in a row to a known
\* subscription leaves status, period bounds, cancel_at_period_end and
\* canceled_at as they are after applying it once.
C10_UpdatedIsIdempotent ==
    \A ev \in UpdatedEvents : \A u \in SubsWithId(subs, ev.id) :
        LET once == UpdatedResult(subs, ev)
            twice == UpdatedResult(once, ev) IN
        /\ UpdatedFields(twice[u]) = UpdatedFields(once[u])
        /\ twice = once

\* C10 witness: an update was applied to a known subscription that had a
\* cancellation time and other period bounds before
C10_Witness ==
    /\ last.op = "updated"
    /\ HasSub("u1") /\ subs["u1"].stripe_subscription_id = last.id
    /\ subs["u1"].canceled_at # NoTime
    /\ subs["u1"].cancel_at_period_end
    /\ subs["u1"].status = "PAST_DUE"
    /\ subs["u1"].current_period_end = FromTimestamp(1)

\* the subscription, if any, that carries the external subscription id
Known(sid) == {u \in Users : subs[u] # NoSub /\ subs[u].stripe_subscription_id = sid}

\* C11: PaymentSucceeded for a known subscription changes status only from
\* PAST_DUE or UNPAID, and then to ACTIVE; ACTIVE, TRIALING and CANCELED stay as
\* they are, so a paid invoice never turns a CANCELED subscription ACTIVE.
C11_PaymentSucceededStatus ==
    [][last'.op = "payment_succeeded" =>
          \A u \in Users :
              HasSub(u) =>
                  /\ subs'[u] # NoSub
                  /\ subs'[u].status =
                        (IF u \in Known(last'.id) /\ subs[u].status \in {"PAST_DUE", "UNPAID"}
                         THEN "ACTIVE" ELSE subs[u].status)
      ]_vars

\* C11 witness: PaymentSucceeded was handled for a known subscription that is
\* CANCELED, with its cancellation time set
C11_Witness ==
    /\ last.op = "payment_succeeded" /\ last.response = "success"
    /\ Known(last.id) = {"u1"}
    /\ subs["u1"].status = "CANCELED"
    /\ subs["u1"].canceled_at # NoTime

\* a step of Spec that is handle_checkout_session_completed for a user who has
\* no subscription (only the clock changes now, and it leaves last alone)
FirstCheckoutStep == now' = now /\ last'.op = "checkout" /\ subs[last'.user] = NoSub

\* what CheckoutCompleted leaves for a user without subscription, but for the
\* usage row
CheckoutStored(s, ev) ==
    /\ s # NoSub
    /\ s.plan = ev.plan
    /\ s.stripe_subscription_id = ev.id
    /\ ev.status = "active" => s.status = "ACTIVE"
    /\ ev.status = "trialing" => s.status = "TRIALING"
    /\ ev.status = "past_due" => s.status = "PAST_DUE"
    /\ s.current_period_start = FromTimestamp(ev.current_period_start)
    /\ s.current_period_end = FromTimestamp(ev.current_period_end)
    /\ s.cancel_at_period_end = FALSE
    /\ s.canceled_at = NoTime

\* C12: CheckoutCompleted for a user who has no subscription leaves the user
\* with a subscription bound to the event's plan, the mapped provider status,
\* the provider's period bounds, cancel_at_period_end = false, canceled_at =
\* null, and with a current usage row (its interval contains now) that counts 0.
C12_CheckoutCreates ==
    [][FirstCheckoutStep =>
          /\ CheckoutStored(subs'[last'.user], last'.event)
          /\ \E i \in Matches(usage', last'.user, now') : usage'[i].descriptions_generated = 0
      ]_vars

\* C12 outside the last second of the month: the same statement for the
\* events handled at an instant up to the period_end of the month
C12_OutsideLastSecond ==
    [][(FirstCheckoutStep /\ ~InGap(now)) =>
          /\ CheckoutStored(subs'[last'.user], last'.event)
          /\ \E i \in Matches(usage', last'.user, now') : usage'[i].descriptions_generated = 0
      ]_vars

\* C13: SubscriptionDeleted for a known subscription in any status sets the
\* status to CANCELED and leaves canceled_at non-null, and handling the same
\* event again, any number of times, leaves the status CANCELED.
C13_DeletedCancels ==
    \A ev \in DeletedEvents : \A u \in Known(ev.id) :
        LET once == DeletedResult(subs, ev.id, now)
            twice == DeletedResult(once, ev.id, now) IN
        /\ once[u].status = "CANCELED" /\ once[u].canceled_at # NoTime
        /\ twice[u].status = "CANCELED" /\ twice[u].canceled_at # NoTime
        /\ (last.op = "deleted" /\ last.id = ev.id) =>
              subs[u].status = "CANCELED" /\ subs[u].canceled_at # NoTime

\* C13 witness: the deletion of a known subscription was handled
C13_Witness ==
    /\ last.op = "deleted" /\ Known(last.id) = {"u1"}
    /\ subs["u1"].status = "CANCELED"
    /\ subs["u1"].canceled_at = now
    /\ subs["u1"].cancel_at_period_end

\* the provider statuses the mapping names
Recognized == {"active", "trialing", "past_due", "canceled", "unpaid"}

\* C19: the status mapping is total and fails closed: the five named provider
\* statuses map to their internal status, every other string and a missing
\* status map to CANCELED, so a SubscriptionUpdated or CheckoutCompleted event
\* with an unrecognized status leaves the subscription neither ACTIVE nor TRIALING.
C19_StatusMappingFailsClosed ==
    /\ \A st \in StripeStatuses :
          /\ MapStripeStatus(st) \in Statuses
          /\ st = "active" => MapStripeStatus(st) = "ACTIVE"
          /\ st = "trialing" => MapStripeStatus(st) = "TRIALING"
          /\ st = "past_due" => MapStripeStatus(st) = "PAST_DUE"
          /\ st = "canceled" => MapStripeStatus(st) = "CANCELED"
          /\ st = "unpaid" => MapStripeStatus(st) = "UNPAID"
          /\ st \notin Recognized => MapStripeStatus(st) = "CANCELED"
    /\ \A ev \in UpdatedEvents : \A u \in Known(ev.id) :
          ev.status \notin Recognized => UpdatedResult(subs, ev)[u].status = "CANCELED"
    /\ (last.op = "updated" /\ last.status \notin Recognized) =>
          \A u \in Known(last.id) : subs[u].status = "CANCELED"
    /\ (last.op = "checkout" /\ last.event.status \notin Recognized) =>
          subs[last.user].status = "CANCELED"

\* C19 witness: an update without status was handled for a known subscription
C19_Witness ==
    /\ last.op = "updated" /\ last.status = NoStatus
    /\ Known(last.id) = {"u1"}
    /\ subs["u1"].status = "CANCELED"

\* C20: a SubscriptionUpdated, SubscriptionDeleted, PaymentFailed or
\* PaymentSucceeded event whose subscription id matches no subscription, and an
\* invoice event without subscription id, changes no subscription and no usage
\* row, attempts no notification, and is answered with success.
C20_UnknownIdIsNoOp ==
    [][(/\ last'.op \in {"updated", "deleted", "payment_failed", "payment_succeeded"}
        /\ (last'.id = NoId \/ Known(last'.id) = {})) =>
          /\ subs' = subs
          /\ usage' = usage
          /\ subRows' = subRows
          /\ last'.mails = {}
          /\ last'.response = "success"
      ]_vars

\* C20 witness: an invoice of another subscription was paid while the only
\* subscription was PAST_DUE and its user had no usage row of this month
C20_Witness ==
    /\ last.op = "payment_succeeded" /\ last.id # NoId /\ last.response = "success"
    /\ Known(last.id) = {}
    /\ HasSub("u1") /\ subs["u1"].status = "PAST_DUE"

\* C14: a failure of the e-mail transport never changes the outcome of the
\* operation that sends: the usage rows, the subscriptions and the returned
\* value of consume (called by a generation request), CheckoutCompleted,
\* SubscriptionDeleted and PaymentFailed are those of the operation with the
\* send left aside; when the quota warning fails, the increment is stored and
\* consume has returned True.
C14_MailFailureChangesNothing ==
    [][/\ (last'.op = "gen" /\ last'.ret # "none") =>
             LET r == ConsumeResult(subs, planQuota, usage, last'.user, now) IN
             /\ usage' = r.tbl
             /\ last'.ret = r.ret
             /\ last'.success = (r.ret # "raised")
             /\ last'.mailFailed => (r.ret = "true" /\ usage' # usage)
             /\ subs' = subs
       /\ last'.op = "checkout" =>
             /\ CheckoutStored(subs'[last'.user], last'.event)
             /\ last'.created => \E i \in 1..Len(usage') : usage'[i].user = last'.user
             /\ last'.response = "success"
       /\ last'.op = "deleted" =>
             /\ subs' = DeletedResult(subs, last'.id, now)
             /\ usage' = usage
             /\ last'.response = "success"
       /\ last'.op = "payment_failed" =>
             /\ subs' = PaymentFailedResult(subs, last'.id)
             /\ usage' = usage
             /\ last'.response = "success"
      ]_vars

\* C14 witness: a generation request's consume reached the quota, the quota
\* warning could not be sent, and the request reported success
C14_Witness ==
    /\ last.op = "gen" /\ last.mailFailed /\ last.ret = "true" /\ last.success
    /\ ActiveFinite("u1")
    /\ \E i \in Current("u1") : usage[i].descriptions_generated = QuotaOf("u1")

\* the provider failed: it raised, or returned one of its error texts
ProviderFailed(d) == d.kind = "raises" \/ d.text \in {ApiErrorText, ParseErrorText}

\* every row the table had is as it was, and a row it gained counts nothing
SameCounts(old, new) ==
    /\ Len(new) >= Len(old)
    /\ \A i \in 1..Len(old) : new[i] = old[i]
    /\ \A i \in 1..Len(new) : i > Len(old) => new[i].descriptions_generated = 0

\* C16: when the text-generation provider fails (error result or exception)
\* in create_listing_with_description or regenerate_description, the request
\* reports failure, never calls increment_usage, and the step that receives
\* the failure changes no usage row.
C16_FailedGenerationNotCharged ==
    [][(last'.op = "gen" /\ last'.called /\ ProviderFailed(last'.answer)) =>
          /\ ~last'.success
          /\ last'.ret = "none"
          /\ last'.charged = 0
          /\ usage' = usage
      ]_vars

\* C16 witness: the provider returned an error text to a create request of a
\* subscriber with quota left, and the listing was created
C16_Witness ==
    /\ last.op = "gen" /\ last.kind = "create" /\ last.answer.text = ApiErrorText
    /\ last.listing /\ ~last.success
    /\ ActiveFinite("u1")
    /\ \E i \in Current("u1") : usage[i].descriptions_generated < QuotaOf("u1")

\* C17: every generation request that reports success is charged exactly once:
\* its increment_usage call incremented the user's current row by one, under
\* every interleaving with other requests and billing events.
C17_SuccessIsChargedOnce ==
    [][(last'.op = "gen" /\ last'.success) =>
          /\ last'.charged = 1
          /\ \E i \in Matches(usage', last'.user, now') :
                /\ i \in 1..Len(usage) =>
                      usage'[i].descriptions_generated = usage[i].descriptions_generated + 1
                /\ i \notin 1..Len(usage) => usage'[i].descriptions_generated = 1
      ]_vars

\* C18: in a generation request the quota check comes first, the provider is
\* called only after the check of the same request returned allowed, and
\* increment_usage only after the provider; a request whose check returned
\* not allowed returns failure with the quota message, creates no listing,
\* calls neither the provider nor increment_usage and changes no usage count.
C18_CheckThenGenerateThenIncrement ==
    [][/\ \A p \in Procs :
             /\ pc'[p] \in {"gen_generate", "gen_increment"} => loc'[p].checked
             /\ pc'[p] = "gen_generate" => ~loc'[p].called
             /\ pc'[p] = "gen_increment" => loc'[p].called
             /\ (pc'[p] = "gen_increment" /\ pc[p] # "gen_increment") => pc[p] = "gen_generate"
             /\ (pc'[p] = "gen_generate" /\ pc[p] # "gen_generate") =>
                   (pc[p] = "idle" /\ CheckUsageQuota(subs, planQuota, usage, loc'[p].user, now).allowed)
       /\ last'.op = "gen" =>
             /\ last'.called => last'.checked
             /\ last'.ret # "none" => last'.called
             /\ ~last'.checked =>
                   /\ ~last'.success /\ last'.message = "quota"
                   /\ ~last'.called /\ last'.ret = "none"
                   /\ listings' = listings
                   /\ SameCounts(usage, usage')
                   /\ ~CheckUsageQuota(subs, planQuota, usage, last'.user, now).allowed
      ]_vars

\* C18 witness: a create request was refused for a subscriber whose finite
\* quota is used up
C18_Witness ==
    /\ last.op = "gen" /\ last.kind = "create" /\ last.message = "quota" /\ ~last.checked
    /\ ~last.listing /\ listings < MaxListings
    /\ ActiveFinite("u1")
    /\ \E i \in Current("u1") : usage[i].descriptions_generated >= QuotaOf("u1")

\* C15: each user has at most one subscription row in every reachable state:
\* CheckoutCompleted events of one user, one after the other or two at a time,
\* with the same or different plans and ids, update the one row in place and
\* never add a second, and no reconciler event removes a row.
C15_OneSubscriptionPerUser ==
    [][\A u \in Users :
          /\ subRows'[u] <= 1
          /\ (subs'[u] # NoSub) <=> (subRows'[u] = 1)
          /\ HasSub(u) => (subs'[u] # NoSub /\ subRows'[u] = subRows[u])
          /\ (last'.op = "checkout" /\ last'.user = u /\ ~last'.created) =>
                (subs'[u] = CheckoutRow(last'.event) /\ subRows[u] = 1)
      ]_vars

\* C15 witness: of two concurrent checkouts of a user without subscription,
\* one inserted the row and the other, for another plan and another id, was
\* rejected by the constraint and updated that row
C15_Witness ==
    /\ last.op = "checkout" /\ last.conflict /\ ~last.created
    /\ subRows["u1"] = 1
    /\ subs["u1"].plan = last.event.plan
    /\ \E p \in Procs :
          /\ pc[p] = "co_usage"
          /\ loc[p].event.plan # last.event.plan
          /\ loc[p].event.id # last.event.id

\* C21: SubscriptionDeleted writes canceled_at only when it is not set yet: for
\* a known subscription whose canceled_at is non-null, the handler leaves
\* canceled_at as it was.
C21_DeletedKeepsCanceledAt ==
    [][last'.op = "deleted" =>
          \A u \in Known(last'.id) :
              subs[u].canceled_at # NoTime => subs'[u].canceled_at = subs[u].canceled_at
      ]_vars

\* C22: at every instant now, the last second of a month included, the row that
\* get_or_create_current creates at now has an interval that contains now, so
\* the lookup of a later call at now finds that row and creates none.
C22_CreatedRowCoversNow ==
    [][(now' = now /\ last'.op = "goc" /\ Len(usage') > Len(usage)) =>
          LET r == usage'[last'.id] IN
          /\ r.user = last'.user
          /\ r.period_start <= now /\ now <= r.period_end
          /\ Matches(usage', last'.user, now) = {last'.id}
          /\ ~GetOrCreate(usage', last'.user, now).created
      ]_vars

\* C23: rows of past periods are append-only history: once now lies in a month
\* that began after a row's period_end, no step changes the row's
\* descriptions_generated, not even the save of a consume that read the row
\* before the month ended; and a row that is added starts with count 0.
C23_PastRowsNeverChange ==
    [][/\ \A i \in 1..Len(usage) :
              usage[i].period_end < PeriodStart(now) =>
                  /\ i <= Len(usage')
                  /\ usage'[i].descriptions_generated = usage[i].descriptions_generated
       /\ \A i \in (Len(usage) + 1)..Len(usage') : usage'[i].descriptions_generated = 0
      ]_vars

\* C24: status transitions are not applied out of causal order.  When the later
\* of two SubscriptionUpdated events of a subscription has just been handled
\* and the event the provider produced before it is delivered after it, the
\* status, the period bounds and the cancel flags stay those of the later event.
C24_LateDeliveryKeepsNewerState ==
    (last.op = "updated" /\ Known(last.id) # {}) =>
        \A earlier \in UpdatedEvents : \A u \in Known(last.id) :
            earlier.id = last.id =>
                UpdatedFields(UpdatedResult(subs, earlier)[u]) = UpdatedFields(subs[u])

\* ------------------------------------------------------ the cancel action
\* cancel_subscription (views.py), statement by statement: request.user.subscription
\* loads the whole row; stripe.Subscription.modify is an HTTP call to the
\* provider; subscription.save() is called without update_fields, so its UPDATE
\* writes every column from the instance loaded at the start.  Webhook handlers
\* run between these statements.

ModifyOutcomes == {"ok", "StripeError"}   \* stripe.Subscription.modify returns or raises

CancelRequest(u, row) == [op |-> "cancel", user |-> u, row |-> row]

\* what a finished cancel request leaves in the history
CancelDone(u, saved) == [op |-> "cancel", user |-> u, saved |-> saved]

\* hasattr(request.user, 'subscription'), subscription = request.user.subscription,
\* and the test of stripe_subscription_id
CancelRead(p, u) ==
    LET go == HasSub(u) /\ subs[u].stripe_subscription_id # NoId IN
    /\ pc[p] = "idle"
    /\ pc' = [pc EXCEPT ![p] = IF go THEN "cancel_modify" ELSE "idle"]
    /\ loc' = [loc EXCEPT ![p] = IF go THEN CancelRequest(u, subs[u]) ELSE Idle]
    /\ last' = IF go THEN [op |-> "cancel_read", user |-> u] ELSE CancelDone(u, FALSE)
    /\ UNCHANGED <<now, planQuota, subs, usage, okCalls, incs, gapCall, subRows, listings>>

\* stripe.Subscription.modify(id, cancel_at_period_end=True); an exception ends
\* the request with an error message
CancelModify(p, outcome) ==
    /\ pc[p] = "cancel_modify"
    /\ pc' = [pc EXCEPT ![p] = IF outcome = "ok" THEN "cancel_save" ELSE "idle"]
    /\ loc' = [loc EXCEPT ![p] = IF outcome = "ok" THEN @ ELSE Idle]
    /\ last' = IF outcome = "ok" THEN [op |-> "cancel_modify", user |-> loc[p].user]
               ELSE CancelDone(loc[p].user, FALSE)
    /\ UNCHANGED <<now, planQuota, subs, usage, okCalls, incs, gapCall, subRows, listings>>

\* the row the UPDATE of save() writes: every field of the loaded instance,
\* cancel_at_period_end set
CancelSavedRow(row) == [row EXCEPT !.cancel_at_period_end = TRUE]

\* subscription.cancel_at_period_end = True; subscription.save()
CancelSave(p) ==
    LET u == loc[p].user IN
    /\ pc[p] = "cancel_save"
    /\ subs' = [subs EXCEPT ![u] = CancelSavedRow(loc[p].row)]
    /\ okCalls' = Disturbed(subs', planQuota)
    /\ pc' = [pc EXCEPT ![p] = "idle"]
    /\ loc' = [loc EXCEPT ![p] = Idle]
    /\ last' = CancelDone(u, TRUE)
    /\ UNCHANGED <<now, planQuota, usage, incs, gapCall, subRows, listings>>

\* subscription.updated events of the one subscription
CancelUpdatedEvents ==
    {ev \in UpdatedEvents : /\ ev.id = "sub_1"
                            /\ ev.status \in {"active", "past_due"}
                            /\ ev.canceled_at = NoTime}

\* one browser session of the user
CancelProcs == {1}

CancelNext ==
    \/ \E p \in CancelProcs, u \in Callers : CancelRead(p, u)
    \/ \E p \in CancelProcs, outcome \in ModifyOutcomes : CancelModify(p, outcome)
    \/ \E p \in CancelProcs : CancelSave(p)
    \/ \E ev \in GenCheckoutEvents : HandleCheckoutCompleted(ev, Delivered)
    \/ \E ev \in CancelUpdatedEvents : HandleSubscriptionUpdated(ev)
    \/ \E ev \in GenDeletedEvents : HandleSubscriptionDeleted(ev, Delivered)
    \/ \E ev \in GenInvoiceEvents : HandlePaymentFailed(ev, Delivered)
    \/ \E ev \in GenInvoiceEvents : HandlePaymentSucceeded(ev)

Cancel == BillingInit /\ [][CancelNext]_vars

\* the fields only the reconciler may write
ReconcilerFields(s) ==
    <<s.status, s.current_period_start, s.current_period_end, s.canceled_at>>

\* C25: cancel_subscription only sets cancel_at_period_end, and only after the
\* provider call succeeded: the step that ends the request leaves status, period
\* bounds and canceled_at as the reconciler last wrote them, also when a webhook
\* handler ran between the request's read of the subscription and its save; a
\* request that does not save changes nothing.
C25_CancelOnlySetsIntent ==
    [][last'.op = "cancel" =>
          \A u \in Users :
              IF u = last'.user /\ last'.saved
              THEN /\ subs'[u] # NoSub
                   /\ subs'[u].cancel_at_period_end
                   /\ ReconcilerFields(subs'[u]) = ReconcilerFields(subs[u])
              ELSE subs'[u] = subs[u]
      ]_vars

\* ------------------------------------------------ quota warning thresholds
\* increment_usage on its own, for quotas and counts large enough for the 80%
\* tier: percentage = (descriptions_generated / quota) * 100 is computed in
\* binary floating point; for quotas of the column's range (32-bit) the
\* comparisons with 80, 90 and 100 agree with the exact integer comparisons of
\* QuotaWarningDue, the quotient being off from a threshold by at least
\* 1 / (10 * quota) whenever it is off at all.

MaxWarnQuota == 13     \* largest quota and starting count of these runs

\* SubscriptionService.increment_usage(u), the whole call
IncrementUsage(u, send) ==
    LET r == ConsumeResult(subs, planQuota, usage, u, now) IN
    /\ Len(r.tbl) <= MaxRecords
    /\ \A i \in 1..Len(r.tbl) : r.tbl[i].descriptions_generated <= MaxWarnQuota + 1
    /\ usage' = r.tbl
    /\ okCalls' = IF r.ret = "true" /\ okCalls[u] >= 0
                  THEN [okCalls EXCEPT ![u] = @ + 1] ELSE okCalls
    /\ incs' = IF r.ret = "true"
               THEN [Grown(incs, r.tbl) EXCEPT ![r.id] = @ + 1]
               ELSE Grown(incs, r.tbl)
    /\ last' = [op |-> "consume", user |-> u,
                ret |-> IF Escapes(r.mails, send) THEN "raised" ELSE r.ret,
                mails |-> r.mails, mailFailed |-> MailFailed(r.mails, send)]
    /\ UNCHANGED <<now, planQuota, subs, gapCall, pc, loc, subRows, listings>>

\* u1 subscribed to either plan, active or not, the finite plan with any quota
\* up to MaxWarnQuota, and any count so far in the month's row
WarnInit ==
    /\ now = 0
    /\ planQuota \in {pq \in [Plans -> (0..MaxWarnQuota) \cup {UNLIMITED}] :
                        pq[FinitePlan] # UNLIMITED /\ pq[UnlimitedPlan] = UNLIMITED}
    /\ \E pl \in Plans, st \in {"ACTIVE", "TRIALING", "PAST_DUE"} :
          subs = [u \in Users |->
                    IF u \in Callers
                    THEN [plan |-> pl, stripe_subscription_id |-> "sub_1",
                          status |-> st,
                          current_period_start |-> FromTimestamp(1),
                          current_period_end |-> FromTimestamp(2),
                          cancel_at_period_end |-> FALSE, canceled_at |-> NoTime]
                    ELSE NoSub]
    /\ \E c \in 0..MaxWarnQuota :
          /\ usage = <<[NewUsage("u1", 0) EXCEPT !.descriptions_generated = c]>>
          /\ incs = <<c>>
    /\ okCalls = [u \in Users |-> 0]
    /\ gapCall = [u \in Users |-> FALSE]
    /\ last = [op |-> "init"]
    /\ pc = [p \in Procs |-> "idle"]
    /\ loc = [p \in Procs |-> Idle]
    /\ subRows = RowsOf(subs)
    /\ listings = 0

WarnNext == \E u \in Callers, send \in SendOutcomes : IncrementUsage(u, send)

Warn == WarnInit /\ [][WarnNext]_vars

\* the count of the user's current row
CurrentCount(tbl, u, t) ==
    LET i == CHOOSE j \in Matches(tbl, u, t) : TRUE IN tbl[i].descriptions_generated

\* C26: after a consume that returns true on a finite plan with quota q > 0,
\* leaving count c, a quota warning is attempted if and only if 100*c >= 90*q,
\* or 100*c >= 80*q and c is a multiple of 10; none is attempted on an unlimited
\* plan or by a consume that returns false.
C26_QuotaWarningThresholds ==
    [][last'.op = "consume" =>
          LET u == last'.user
              q == QuotaOf(u)
              c == CurrentCount(usage', u, now)
              charged == c = CurrentCount(usage, u, now) + 1
              attempted == "quota_warning" \in last'.mails IN
          /\ last'.mails \subseteq {"quota_warning"}
          /\ charged <=> (last'.ret = "true")
          /\ attempted <=>
                /\ charged
                /\ q # UNLIMITED /\ q > 0
                /\ \/ 100 * c >= 90 * q
                   \/ (100 * c >= 80 * q /\ c % 10 = 0)
      ]_vars

\* C26 witness: a consume brought the count to 10 of a quota of 12 (more than
\* 80%, less than 90%) and the warning was attempted
C26_Witness ==
    /\ last.op = "consume" /\ last.ret = "true"
    /\ QuotaOf("u1") = 12
    /\ CurrentCount(usage, "u1", now) = 10
    /\ last.mails = {"quota_warning"}

\* C27: over any sequence of CheckoutCompleted deliveries for a user, the same
\* event redelivered included, the subscription confirmation is attempted at
\* most once: a delivery attempts it exactly if it creates the user's
\* subscription (none before, one after), a subscription is never removed
\* again, and a delivery that replaces an existing subscription attempts no
\* notification and creates no usage row.
C27_ConfirmationOnlyOnCreation ==
    [][/\ \A u \in Users : subs[u] # NoSub => subs'[u] # NoSub
       /\ last'.op = "checkout" =>
             LET u == last'.user
                 creates == u \in Users /\ subs[u] = NoSub /\ subs'[u] # NoSub IN
             /\ ("subscription_confirmation" \in last'.mails) <=> creates
             /\ ~creates => (last'.mails = {} /\ usage' = usage)
      ]_vars

\* C27 witness: the event that created the subscription was delivered again
\* and replaced it, with no notification
C27_Witness ==
    /\ last.op = "checkout" /\ ~last.created /\ last.response = "success"
    /\ last.mails = {}
    /\ CheckoutStored(subs[last.user], last.event)
    /\ Len(usage) = 1

\* C28: a CheckoutCompleted event that lacks the user id, the plan id, the
\* customer id or the subscription id is rejected as malformed: no subscription
\* and no usage row is created or changed, no notification is attempted, and
\* the endpoint answers with the error response, which is not the success
\* response it gives for an event of an unknown subscription.
C28_MalformedCheckoutRejected ==
    [][/\ (last'.op = "checkout" /\ \E f \in {"user", "plan", "customer", "id"} :
                                       last'.event[f] = NoId) =>
             /\ subs' = subs /\ subRows' = subRows
             /\ usage' = usage
             /\ last'.mails = {}
             /\ last'.response = "error"
       /\ (last'.op \in {"updated", "deleted"} /\ Known(last'.id) = {}) =>
             /\ last'.response = "success"
             /\ last'.response # Response(TRUE)
      ]_vars

\* C28 witness: a checkout session without customer id was rejected while the
\* user named in it had a subscription
C28_Witness ==
    /\ last.op = "checkout" /\ last.response = "error"
    /\ last.event.customer = NoId /\ last.event.user = "u1"
    /\ last.event.plan # NoId /\ last.event.id # NoId
    /\ HasSub("u1") /\ subs["u1"].stripe_subscription_id # last.event.id
    /\ usage # <<>>

\* C29: CANCELED is absorbing for payment events: once SubscriptionDeleted has
\* set a subscription to CANCELED, no sequence of PaymentFailed and
\* PaymentSucceeded events makes it ACTIVE or TRIALING, and check_usage_quota
\* stays not allowed, until CheckoutCompleted or SubscriptionUpdated is handled.
\* Stated for the runs without SubscriptionUpdated events: CheckoutCompleted
\* clears canceled_at and the payment handlers leave it alone, so there a
\* non-null canceled_at says that the subscription was deleted and that only
\* payment events and further deletions were handled for it since.
C29_CanceledIsAbsorbing ==
    \A u \in Users :
        (HasSub(u) /\ subs[u].canceled_at # NoTime) =>
            /\ subs[u].status \notin {"ACTIVE", "TRIALING"}
            /\ ~CheckUsageQuota(subs, planQuota, usage, u, now).allowed

\* C30: within one period the descriptions_generated of a user's current row
\* is non-negative and never decreases: in every step, under any interleaving
\* of check_usage_quota, increment_usage and the clock, a row that is current
\* before and after the step counts at least as much after it as before.
C30_CountNeverDecreases ==
    [][\A u \in Users : \A i \in Current(u) :
          /\ usage[i].descriptions_generated >= 0
          /\ i \in Matches(usage', u, now') =>
                usage'[i].descriptions_generated >= usage[i].descriptions_generated
      ]_vars

====
